---- MODULE Spec2Model ----
(***************************************************************************)
(* Model of the wormgear_geometry package: the feature engine              *)
(* (features.py), the wheel builder (wheel.py), the worm builder (worm.py) *)
(* and the command line driver with its loader (cli.py, io.py).            *)
(*                                                                         *)
(* Lengths are integers in micrometres (mm(x) is x millimetres), angles    *)
(* are in degrees.  An Optional value is a sequence: None is the empty     *)
(* sequence, Some(v) holds v.  A solid is the sequence of backend          *)
(* operations that produced it; every call into the build123d backend is   *)
(* appended to the log `backend`, every print to `stdout`.                 *)
(***************************************************************************)
EXTENDS Integers, Sequences, FiniteSets, TLC

VARIABLES
    backend,      \* log of the backend operations performed, in order
    stdout,       \* lines printed
    \* ---- add_bore_and_keyway (features.py)
    part_length,  \* argument: length of the part along the bore axis
    bore,         \* argument: Optional BoreFeature
    keyway,       \* argument: Optional KeywayFeature
    set_screw,    \* argument: Optional SetScrewFeature
    fpc,          \* position in add_bore_and_keyway
    step,         \* which of the three feature statements is next
    angles,       \* create_set_screw: the angles still to drill
    screw_diameter, \* create_set_screw: resolved thread diameter
    result,       \* local `result`: the cuts subtracted from `part` so far
    fret,         \* Optional returned part
    ferr,         \* the exception raised, "" when none
    \* ---- WheelGeometry (wheel.py)
    num_teeth,    \* params.num_teeth
    d1,           \* worm_params.pitch_diameter_mm
    ratio,        \* assembly_params.ratio
    face_width_arg, \* constructor argument face_width: Optional
    face_width,   \* self.face_width: Optional, set by __init__
    wpc,          \* position in WheelGeometry.__init__ / build
    tooth,        \* loop variable i of _create_helical_gear
    gear,         \* local `gear`: the operations that made the body so far
    wret,         \* Optional tuple of the values build returned
    wsolids,      \* volumes of the disjoint solids of the part build returned
    tooth_space_params, \* module, radii, backlash, pressure angle of the wheel
    werr,         \* the exception build raised, "" when none
    \* ---- WormGeometry (worm.py)
    num_starts,   \* params.num_starts
    hand,         \* params.hand
    lead,         \* params.lead_mm
    length,       \* self.length
    thread_params, \* thread thickness, backlash, addendum, dedendum, pressure angle
    mpc,          \* position in WormGeometry.build
    start_index,  \* loop variable of _create_threads
    thread,       \* _create_single_thread: Optional swept, untrimmed thread
    threads,      \* the list `threads`
    core,         \* local `core`
    union,        \* _create_threads: local `result`
    next_thread,  \* _create_threads: index of the next thread to unite
    mret,         \* Optional worm returned by build
    merr,         \* the exception build raised, "" when none
    \* ---- main (cli.py) and load_design_json (io.py)
    json_file,    \* the design file: whether it exists, and its content
    args,         \* the parsed command line
    design,       \* Optional WormGearDesign loaded
    cpc,          \* position in main
    exit_code,    \* Optional value main returned
    \* ---- one call of a module-level function or method of features.py
    fn,           \* the function called, "" when none is
    pitch_diameter, \* argument of calculate_default_bore
    root_diameter,  \* argument of calculate_default_bore
    bore_diameter_arg, \* argument bore_diameter of the lookups and get_dimensions
    self_keyway,  \* Optional KeywayFeature get_dimensions is called on
    bore_args,    \* Optional arguments BoreFeature is constructed with
    returned      \* Optional value the call returned

featVars == <<part_length, bore, keyway, set_screw, fpc, step, angles, screw_diameter,
              result, fret, ferr>>

wheelVars == <<num_teeth, d1, ratio, face_width_arg, face_width, wpc, tooth,
               gear, wret, wsolids, tooth_space_params, werr>>

wormVars == <<num_starts, hand, lead, length, thread_params, mpc, start_index, thread, threads,
              core, union, next_thread, mret, merr>>

cliVars == <<json_file, args, design, cpc, exit_code>>

callVars == <<fn, pitch_diameter, root_diameter, bore_diameter_arg,
              self_keyway, bore_args, returned>>

vars == <<backend, stdout, featVars, wheelVars, wormVars, cliVars, callVars>>

\* What the steps of one component leave alone: the other components.
notFeat == <<wheelVars, wormVars, cliVars, callVars>>
notWheel == <<featVars, wormVars, cliVars, callVars>>
notWorm == <<featVars, wheelVars, cliVars, callVars>>

None == <<>>
Some(v) == <<v>>
Val(o) == o[1]

mm(x) == x * 1000
tenth(x) == x * 100

(***************************************************************************)
(* features.py: the standards tables and their lookups                     *)
(***************************************************************************)

Row(lo, hi, v) == [min |-> mm(lo), max |-> mm(hi), value |-> v]

Dims(w, h, t1, t2) ==
    [key_width |-> mm(w), key_height |-> mm(h),
     shaft_depth |-> tenth(t1), hub_depth |-> tenth(t2)]

\* The table with the second range reaching into the third: (8, 11).
DIN_6885_KEYWAYS_overlapping ==
    << Row(6, 8, Dims(2, 2, 12, 10)),
       Row(8, 11, Dims(3, 3, 18, 14)),
       Row(10, 12, Dims(4, 4, 25, 18)),
       Row(12, 17, Dims(5, 5, 30, 23)),
       Row(17, 22, Dims(6, 6, 35, 28)),
       Row(22, 30, Dims(8, 7, 40, 33)),
       Row(30, 38, Dims(10, 8, 50, 33)),
       Row(38, 44, Dims(12, 8, 50, 33)),
       Row(44, 50, Dims(14, 9, 55, 38)),
       Row(50, 58, Dims(16, 10, 60, 43)),
       Row(58, 65, Dims(18, 11, 70, 44)),
       Row(65, 75, Dims(20, 12, 75, 49)),
       Row(75, 85, Dims(22, 14, 90, 54)),
       Row(85, 95, Dims(25, 14, 90, 54)) >>

DIN_6885_KEYWAYS ==
    << Row(6, 8, Dims(2, 2, 12, 10)),
       Row(8, 10, Dims(3, 3, 18, 14)),
       Row(10, 12, Dims(4, 4, 25, 18)),
       Row(12, 17, Dims(5, 5, 30, 23)),
       Row(17, 22, Dims(6, 6, 35, 28)),
       Row(22, 30, Dims(8, 7, 40, 33)),
       Row(30, 38, Dims(10, 8, 50, 33)),
       Row(38, 44, Dims(12, 8, 50, 33)),
       Row(44, 50, Dims(14, 9, 55, 38)),
       Row(50, 58, Dims(16, 10, 60, 43)),
       Row(58, 65, Dims(18, 11, 70, 44)),
       Row(65, 75, Dims(20, 12, 75, 49)),
       Row(75, 85, Dims(22, 14, 90, 54)),
       Row(85, 95, Dims(25, 14, 90, 54)) >>

Screw(name, d) == [size |-> name, diameter |-> tenth(d)]

SET_SCREW_SIZES ==
    << Row(2, 6, Screw("M2.5", 25)),
       Row(6, 10, Screw("M3", 30)),
       Row(10, 20, Screw("M4", 40)),
       Row(20, 35, Screw("M5", 50)),
       Row(35, 60, Screw("M6", 60)),
       Row(60, 100, Screw("M8", 80)) >>

\* The rows whose range holds d, the range closed above and open below.
MatchingClosedAbove(table, d) ==
    {i \in 1..Len(table) : table[i].min < d /\ d <= table[i].max}

\* The rows of `table` whose half-open range holds d, as the for loops test it.
Matching(table, d) ==
    {i \in 1..Len(table) : table[i].min <= d /\ d < table[i].max}

\* The first matching row in scan order (the loop returns at the first hit).
FirstMatch(table, d) ==
    CHOOSE i \in Matching(table, d) : \A j \in Matching(table, d) : i <= j

get_din_6885_keyway(bore_diameter) ==
    IF Matching(DIN_6885_KEYWAYS, bore_diameter) = {}
    THEN None
    ELSE Some(DIN_6885_KEYWAYS[FirstMatch(DIN_6885_KEYWAYS, bore_diameter)].value)

\* get_set_screw_size raising above the table as it does below it
get_set_screw_size_strict(bore_diameter) ==
    IF bore_diameter < mm(2) \/ Matching(SET_SCREW_SIZES, bore_diameter) = {}
    THEN [raised |-> "ValueError: bore too small for set screws",
          size |-> "", diameter |-> 0]
    ELSE LET r == SET_SCREW_SIZES[FirstMatch(SET_SCREW_SIZES, bore_diameter)].value
         IN  [raised |-> "", size |-> r.size, diameter |-> r.diameter]

\* [raised, size, diameter]: raised names the exception, "" when none.
get_set_screw_size(bore_diameter) ==
    IF bore_diameter < mm(2)
    THEN [raised |-> "ValueError: bore too small for set screws",
          size |-> "", diameter |-> 0]
    ELSE IF Matching(SET_SCREW_SIZES, bore_diameter) # {}
    THEN LET r == SET_SCREW_SIZES[FirstMatch(SET_SCREW_SIZES, bore_diameter)].value
         IN  [raised |-> "", size |-> r.size, diameter |-> r.diameter]
    ELSE [raised |-> "", size |-> "M8", diameter |-> mm(8)]

(***************************************************************************)
(* features.py: the feature dataclasses                                    *)
(***************************************************************************)

\* BoreFeature.__post_init__: TRUE when construction raises nothing.
BoreFeature_post_init(b) ==
    /\ ~(b.diameter <= 0)
    /\ ~(~b.through /\ b.depth = None)
    /\ ~(b.depth # None /\ Val(b.depth) <= 0)

\* SetScrewFeature.__post_init__
SetScrewFeature_post_init(s) ==
    /\ ~(s.count < 1 \/ s.count > 3)
    /\ ~(s.diameter # None /\ Val(s.diameter) <= 0)

\* get_dimensions taking the key height for the depth
get_dimensions_key_height(kw, bore_diameter) ==
    IF kw.width # None /\ kw.depth # None
    THEN [raised |-> "", width |-> Val(kw.width), depth |-> Val(kw.depth)]
    ELSE LET dims == get_din_6885_keyway(bore_diameter) IN
         IF dims = None
         THEN [raised |-> "ValueError: bore outside DIN 6885 range",
               width |-> 0, depth |-> 0]
         ELSE [raised |-> "",
               width |-> IF kw.width # None THEN Val(kw.width)
                         ELSE Val(dims).key_width,
               depth |-> IF kw.depth # None THEN Val(kw.depth)
                         ELSE Val(dims).key_height]

\* get_dimensions looking the bore up before it looks at width and depth
get_dimensions_lookup_first(kw, bore_diameter) ==
    LET dims == get_din_6885_keyway(bore_diameter) IN
    IF dims = None
    THEN [raised |-> "ValueError: bore outside DIN 6885 range",
          width |-> 0, depth |-> 0]
    ELSE [raised |-> "",
          width |-> IF kw.width # None THEN Val(kw.width)
                    ELSE Val(dims).key_width,
          depth |-> IF kw.depth # None THEN Val(kw.depth)
                    ELSE IF kw.is_shaft THEN Val(dims).shaft_depth
                    ELSE Val(dims).hub_depth]

\* KeywayFeature.get_dimensions: [raised, width, depth]
get_dimensions(kw, bore_diameter) ==
    IF kw.width # None /\ kw.depth # None
    THEN [raised |-> "", width |-> Val(kw.width), depth |-> Val(kw.depth)]
    ELSE LET dims == get_din_6885_keyway(bore_diameter) IN
         IF dims = None
         THEN [raised |-> "ValueError: bore outside DIN 6885 range",
               width |-> 0, depth |-> 0]
         ELSE [raised |-> "",
               width |-> IF kw.width # None THEN Val(kw.width)
                         ELSE Val(dims).key_width,
               depth |-> IF kw.depth # None THEN Val(kw.depth)
                         ELSE IF kw.is_shaft THEN Val(dims).shaft_depth
                         ELSE Val(dims).hub_depth]

\* SetScrewFeature.get_screw_specs: [raised, size, diameter]
get_screw_specs(s, bore_diameter) ==
    IF s.size # None /\ s.diameter # None
    THEN [raised |-> "", size |-> Val(s.size), diameter |-> Val(s.diameter)]
    ELSE LET auto == get_set_screw_size(bore_diameter) IN
         IF auto.raised # ""
         THEN auto
         ELSE [raised |-> "",
               size |-> IF s.size # None THEN Val(s.size) ELSE auto.size,
               diameter |-> IF s.diameter # None THEN Val(s.diameter)
                            ELSE auto.diameter]

\* lines 442-447 taking the branch of a single screw for every count
screw_angles_one(s) == << s.angular_offset >>

\* create_set_screw, lines 442-447: the angular positions of the holes.
screw_angles(s) ==
    IF s.count = 1
    THEN << s.angular_offset >>
    ELSE [i \in 1..s.count |-> s.angular_offset + (i - 1) * (360 \div s.count)]

(***************************************************************************)
(* features.py: add_bore_and_keyway and the three cuts it makes            *)
(***************************************************************************)

BoreDiameters == {mm(1) + 500, mm(5), mm(10), mm(95)}

BoreFeatures ==
    {b \in [diameter : BoreDiameters, through : BOOLEAN,
            depth : {None, Some(mm(5))}] : BoreFeature_post_init(b)}

KeywayFeatures ==
    [width : {None, Some(mm(4))}, depth : {None, Some(mm(2))},
     length : {None, Some(mm(8))}, is_shaft : BOOLEAN]

SetScrewFeatures ==
    {s \in [size : {None, Some("M4")}, diameter : {None, Some(mm(4))},
            count : 0..4, angular_offset : {0, 90}] :
        SetScrewFeature_post_init(s)}

Optional(S) == {None} \cup {Some(v) : v \in S}

\* A backend operation: the solid made and combined with the part; ok tells
\* whether the backend produced geometry or raised.
Cut(op, shape, dims, angle) ==
    [op |-> op, shape |-> shape, dims |-> dims, angle |-> angle, ok |-> TRUE]

Failed(cut) == [cut EXCEPT !.ok = FALSE]

InitFeatures ==
    /\ backend = <<>>
    /\ stdout = <<>>
    /\ part_length \in {mm(12)}
    /\ bore \in Optional(BoreFeatures)
    /\ keyway \in Optional(KeywayFeatures)
    /\ set_screw \in Optional(SetScrewFeatures)
    /\ fpc = "l507"
    /\ step = 1
    /\ angles = <<>>
    /\ screw_diameter = 0
    /\ result = <<>>
    /\ fret = None
    /\ ferr = ""

\* The feature engine is not running.
IdleFeatures ==
    /\ part_length = 0
    /\ bore = None
    /\ keyway = None
    /\ set_screw = None
    /\ fpc = "idle"
    /\ step = 1
    /\ angles = <<>>
    /\ screw_diameter = 0
    /\ result = <<>>
    /\ fret = None
    /\ ferr = ""

FeatRaise(e) ==
    /\ fpc' = "raised"
    /\ ferr' = e
    /\ UNCHANGED <<part_length, bore, keyway, set_screw, step, angles,
                   screw_diameter, result, fret, backend, stdout>>

\* `result = result - solid`, the backend raising
SubtractFails(cut) ==
    /\ fpc' = "raised"
    /\ ferr' = "BooleanFailure"
    /\ backend' = Append(backend, Failed(cut))
    /\ UNCHANGED <<part_length, bore, keyway, set_screw, step, angles,
                   screw_diameter, result, fret, stdout>>

\* `result = result - solid`, the backend succeeding
Subtract(cut) ==
    /\ result' = Append(result, cut)
    /\ backend' = Append(backend, cut)

\* line 507
KeywayWithoutBore == keyway # None /\ bore = None

\* line 510
SetScrewWithoutBoreUnchecked == FALSE
SetScrewWithoutBore == set_screw # None /\ bore = None

\* lines 507-513
ValidateFeatures ==
    /\ UNCHANGED notFeat
    /\ fpc = "l507"
    /\ IF KeywayWithoutBore
       THEN FeatRaise("ValueError: Keyway requires a bore to be specified")
       ELSE IF SetScrewWithoutBore
       THEN FeatRaise("ValueError: Set screw requires a bore to be specified")
       ELSE /\ fpc' = "apply"
            /\ result' = <<>>
            /\ UNCHANGED <<part_length, bore, keyway, set_screw, step, angles,
                           screw_diameter, fret, ferr, backend, stdout>>

\* lines 515-522: the order of the three feature statements
FeatureOrderKeywayFirst == <<"keyway", "bore", "set_screw">>
FeatureOrder == <<"bore", "keyway", "set_screw">>

AtFeature(f) ==
    /\ fpc = "apply"
    /\ step <= Len(FeatureOrder)
    /\ FeatureOrder[step] = f

SkipFeature ==
    /\ step' = step + 1
    /\ UNCHANGED <<part_length, bore, keyway, set_screw, fpc, angles,
                   screw_diameter, result, fret, ferr, backend, stdout>>

\* the cutting cylinder of a through bore ending flush with the part
bore_cyl_flush(b) ==
    Cut("bore", "cylinder",
        <<b.diameter \div 2,
          IF b.through THEN part_length ELSE Val(b.depth)>>, 0)

\* create_bore, lines 301-314: the cutting cylinder <<radius, height>>,
\* centred on the origin
bore_cyl(b) ==
    Cut("bore", "cylinder",
        <<b.diameter \div 2,
          IF b.through THEN part_length + mm(1) ELSE Val(b.depth)>>, 0)

\* lines 515-516 and create_bore
ApplyBore ==
    /\ UNCHANGED notFeat
    /\ AtFeature("bore")
    /\ IF bore = None
       THEN SkipFeature
       ELSE \E ok \in BOOLEAN :
            IF ok
            THEN /\ Subtract(bore_cyl(Val(bore)))
                 /\ step' = step + 1
                 /\ UNCHANGED <<part_length, bore, keyway, set_screw, fpc,
                                angles, screw_diameter, fret, ferr, stdout>>
            ELSE SubtractFails(bore_cyl(Val(bore)))

\* create_keyway, lines 356-393: the cutting box <<radial, tangential, axial>>,
\* the same for shaft and hub keyways
keyway_box(b, kw, dims) ==
    Cut("keyway", "box",
        <<b.diameter \div 2 + dims.depth,
          dims.width,
          (IF kw.length # None THEN Val(kw.length) ELSE part_length) + mm(1)>>,
        0)

\* lines 518-519 and create_keyway
ApplyKeyway ==
    /\ UNCHANGED notFeat
    /\ AtFeature("keyway")
    /\ IF keyway = None
       THEN SkipFeature
       ELSE IF bore = None
       THEN FeatRaise("AttributeError: 'NoneType' object has no attribute 'diameter'")
       ELSE LET dims == get_dimensions(Val(keyway), Val(bore).diameter) IN
            IF dims.raised # ""
            THEN FeatRaise(dims.raised)
            ELSE \E ok \in BOOLEAN :
                 IF ok
                 THEN /\ Subtract(keyway_box(Val(bore), Val(keyway), dims))
                      /\ step' = step + 1
                      /\ UNCHANGED <<part_length, bore, keyway, set_screw, fpc,
                                     angles, screw_diameter, fret, ferr, stdout>>
                 ELSE SubtractFails(keyway_box(Val(bore), Val(keyway), dims))

\* lines 521-522 and create_set_screw up to its loop (lines 432-449)
ApplySetScrew ==
    /\ UNCHANGED notFeat
    /\ AtFeature("set_screw")
    /\ IF set_screw = None
       THEN SkipFeature
       ELSE IF bore = None
       THEN FeatRaise("AttributeError: 'NoneType' object has no attribute 'diameter'")
       ELSE LET specs == get_screw_specs(Val(set_screw), Val(bore).diameter) IN
            IF specs.raised # ""
            THEN FeatRaise(specs.raised)
            ELSE /\ fpc' = "drill"
                 /\ angles' = screw_angles(Val(set_screw))
                 /\ screw_diameter' = specs.diameter
                 /\ UNCHANGED <<part_length, bore, keyway, set_screw, step,
                                result, fret, ferr, backend, stdout>>

\* Outer radii of the part handed to add_bore_and_keyway; the code never
\* reads the part's size.
PartRadii == {mm(6), mm(20), mm(60)}

\* create_set_screw, lines 438 and 454-458: one hole <<radius, length>>, its
\* length bore_radius + 10 measured from the axis of the part
screw_hole(b, angle) ==
    Cut("set_screw", "cylinder",
        <<screw_diameter \div 2, b.diameter \div 2 + mm(10)>>, angle)

\* create_set_screw lines 451-477: one iteration of the loop, or its end
DrillSetScrew ==
    /\ UNCHANGED notFeat
    /\ fpc = "drill"
    /\ IF angles = <<>>
       THEN /\ fpc' = "apply"
            /\ step' = step + 1
            /\ UNCHANGED <<part_length, bore, keyway, set_screw, angles,
                           screw_diameter, result, fret, ferr, backend, stdout>>
       ELSE \E ok \in BOOLEAN :
            IF ok
            THEN /\ Subtract(screw_hole(Val(bore), Head(angles)))
                 /\ angles' = Tail(angles)
                 /\ UNCHANGED <<part_length, bore, keyway, set_screw, fpc, step,
                                screw_diameter, fret, ferr, stdout>>
            ELSE SubtractFails(screw_hole(Val(bore), Head(angles)))

\* Volumes of the disjoint solids a part may consist of after its cuts.
SolidLists == {<<>>, <<5>>, <<5, 2>>, <<2, 5>>, <<1, 5, 2>>}

MaxOf(seq) ==
    CHOOSE v \in {seq[i] : i \in 1..Len(seq)} :
        \A i \in 1..Len(seq) : seq[i] <= v

\* lines 526-532: one solid is taken as it is, of several the largest
select_solid(solids) ==
    IF Len(solids) = 1 THEN <<solids[1]>>
    ELSE IF Len(solids) > 1 THEN <<MaxOf(solids)>>
    ELSE solids

\* lines 524-534
ReturnPart ==
    /\ UNCHANGED notFeat
    /\ fpc = "apply"
    /\ step > Len(FeatureOrder)
    /\ \E solids \in SolidLists :
         fret' = Some([cuts |-> result, solids |-> select_solid(solids)])
    /\ fpc' = "returned"
    /\ UNCHANGED <<part_length, bore, keyway, set_screw, step, angles,
                   screw_diameter, result, ferr, backend, stdout>>

NextFeatures ==
    \/ ValidateFeatures
    \/ ApplyBore
    \/ ApplyKeyway
    \/ ApplySetScrew
    \/ DrillSetScrew
    \/ ReturnPart

(***************************************************************************)
(* wheel.py: WheelGeometry                                                 *)
(***************************************************************************)

MaxTeeth == 3

\* Integer square and cube roots (floor), for the face width formula.
ISqrt(v) == CHOOSE x \in 0..v : x * x <= v /\ (x + 1) * (x + 1) > v

ICbrt(v) ==
    CHOOSE x \in 0..300 : x * x * x <= v /\ (x + 1) * (x + 1) * (x + 1) > v

Max2(a, b) == IF a >= b THEN a ELSE b
Min2(a, b) == IF a <= b THEN a ELSE b

\* line 47 without the roots: 0.73 * d1
face_width_formula_linear(d, r) == (73 * d) \div 100

\* line 47: 0.73 * d1 ** (1/3) * sqrt(ratio), in micrometres for d in
\* micrometres: cbrt(d/1000) = ICbrt(1000 d)/100, sqrt(r) = ISqrt(10000 r)/100.
face_width_formula(d, r) ==
    (73 * ICbrt(d * 1000) * ISqrt(r * 10000)) \div 1000

\* lines 44-50 with the clamp of line 48 applied to a given face width too
resolve_face_width_clamped(arg, d, r) ==
    Max2((3 * d) \div 10,
         Min2((67 * d) \div 100,
              IF arg = None THEN face_width_formula(d, r) ELSE Val(arg)))

\* lines 44-50
resolve_face_width(arg, d, r) ==
    IF arg = None
    THEN Max2((3 * d) \div 10, Min2((67 * d) \div 100, face_width_formula(d, r)))
    ELSE Val(arg)

\* Angles of the wheel and the worm are exact fractions of a degree:
\* Frac(n, d) is n/d degrees.
Frac(n, d) == <<n, d>>

\* lines 72-76: m, pitch_radius, root_radius, the backlash and the tangent of
\* the pressure angle in thousandths
tooth_space_of(m, pitch_d, root_d, backlash, tan_pa) ==
    [module_mm |-> m, pitch_radius |-> pitch_d \div 2,
     root_radius |-> root_d \div 2, backlash_mm |-> backlash,
     tan_pressure_angle |-> tan_pa]

\* Wheels of 30 teeth with a dedendum of 1.25 modules, at pressure angles of
\* 20 and 35 degrees.
ToothSpaceParams ==
    {tooth_space_of(m, 30 * m, 30 * m - (5 * m) \div 2, b, t) :
        m \in {mm(2), mm(10)}, b \in {0, 100}, t \in {364, 700}}

\* lines 89-95: circular_pitch = pi * m with pi as 355/113; the width of the
\* space at the root, floored at 0.5 mm
space_width_root(p) ==
    Max2(500,
         (355 * p.module_mm) \div 226 + p.backlash_mm
             - (2 * (p.pitch_radius - p.root_radius) * p.tan_pressure_angle)
                   \div 1000)

InitWheelParams ==
    /\ num_teeth \in 0..MaxTeeth
    /\ d1 \in {mm(20), mm(8)}
    /\ ratio \in {30, 4}
    /\ face_width_arg \in {None, Some(mm(12))}
    /\ tooth_space_params \in ToothSpaceParams

\* The geometry object does not exist yet.
WheelNew ==
    /\ face_width = None
    /\ wpc = "new"
    /\ tooth = 0
    /\ gear = <<>>
    /\ wret = None
    /\ wsolids = <<>>
    /\ werr = ""

IdleWheel ==
    /\ tooth_space_params = tooth_space_of(0, 0, 0, 0, 0)
    /\ num_teeth = 0
    /\ d1 = 0
    /\ ratio = 0
    /\ face_width_arg = None
    /\ face_width = None
    /\ wpc = "idle"
    /\ tooth = 0
    /\ gear = <<>>
    /\ wret = None
    /\ wsolids = <<>>
    /\ werr = ""

WheelParams == <<num_teeth, d1, ratio, face_width_arg, tooth_space_params>>

\* __init__, lines 39-50
WheelConstruct ==
    /\ UNCHANGED notWheel
    /\ wpc = "new"
    /\ face_width' = Some(resolve_face_width(face_width_arg, d1, ratio))
    /\ wpc' = "blank"
    /\ UNCHANGED <<WheelParams, tooth, gear, wret, wsolids, werr, backend,
                   stdout>>

WheelRaise(op, e) ==
    /\ wpc' = "raised"
    /\ werr' = e
    /\ backend' = Append(backend, Failed(op))
    /\ UNCHANGED <<WheelParams, face_width, tooth, gear, wret, wsolids,
                   stdout>>

\* lines 82-86: the blank; the tip diameter is not modelled
blank == Cut("blank", "cylinder", <<Val(face_width)>>, Frac(0, 1))

\* build line 60, _create_helical_gear lines 71-117
CreateBlank ==
    /\ UNCHANGED notWheel
    /\ wpc = "blank"
    /\ \E ok \in BOOLEAN :
         IF ok
         THEN /\ gear' = <<blank>>
              /\ backend' = Append(backend, blank)
              /\ tooth' = 0
              /\ wpc' = "teeth"
              /\ UNCHANGED <<WheelParams, face_width, wret, wsolids, werr,
                             stdout>>
         ELSE WheelRaise(blank, "GeometryFailure: blank")

\* lines 120-179: the swept tooth space i, of the root width of lines 94-98,
\* at base_angle = (360 / z) * i
space(i) ==
    Cut("tooth_space", "sweep", <<i, space_width_root(tooth_space_params)>>,
        Frac(360 * i, num_teeth))

\* lines 119-182: the try block runs to its end, gear = gear - space
CutToothSpace ==
    /\ UNCHANGED notWheel
    /\ wpc = "teeth"
    /\ tooth < num_teeth
    /\ gear' = Append(gear, space(tooth))
    /\ backend' = Append(backend, space(tooth))
    /\ tooth' = tooth + 1
    /\ UNCHANGED <<WheelParams, face_width, wpc, wret, wsolids, werr, stdout>>

\* lines 183-184, leaving the loop at the failing tooth
ToothSpaceFailsBreak ==
    /\ UNCHANGED notWheel
    /\ wpc = "teeth"
    /\ tooth < num_teeth
    /\ backend' = Append(backend, Failed(space(tooth)))
    /\ stdout' = Append(stdout, [warning |-> "Tooth space failed", i |-> tooth])
    /\ tooth' = num_teeth
    /\ UNCHANGED <<WheelParams, face_width, wpc, gear, wret, wsolids, werr>>

\* lines 149-184: the sweep or the subtraction raises, the handler prints
ToothSpaceFails ==
    /\ UNCHANGED notWheel
    /\ wpc = "teeth"
    /\ tooth < num_teeth
    /\ backend' = Append(backend, Failed(space(tooth)))
    /\ stdout' = Append(stdout, [warning |-> "Tooth space failed", i |-> tooth])
    /\ tooth' = tooth + 1
    /\ UNCHANGED <<WheelParams, face_width, wpc, gear, wret, wsolids, werr>>

\* lines 203-212: the torus and its subtraction
throat_torus == Cut("throat", "torus", <<>>, Frac(0, 1))

\* _apply_throat_cut raising is caught and the gear returned without throat
ApplyThroatCutLenient ==
    /\ UNCHANGED notWheel
    /\ wpc = "teeth"
    /\ tooth >= num_teeth
    /\ \E ok \in BOOLEAN :
         /\ gear' = IF ok THEN Append(gear, throat_torus) ELSE gear
         /\ backend' = Append(backend, IF ok THEN throat_torus
                                       ELSE Failed(throat_torus))
         /\ wret' = Some(<<gear'>>)
         /\ \E solids \in SolidLists \ {<<>>} : wsolids' = solids
         /\ wpc' = "returned"
         /\ UNCHANGED <<WheelParams, face_width, tooth, werr, stdout>>

\* line 186 and build lines 63-65 with _apply_throat_cut, lines 197-214
ApplyThroatCut ==
    /\ UNCHANGED notWheel
    /\ wpc = "teeth"
    /\ tooth >= num_teeth
    /\ \E ok \in BOOLEAN :
         IF ok
         THEN /\ gear' = Append(gear, throat_torus)
              /\ backend' = Append(backend, throat_torus)
              /\ wret' = Some(<<gear'>>)
              /\ \E solids \in SolidLists \ {<<>>} : wsolids' = solids
              /\ wpc' = "returned"
              /\ UNCHANGED <<WheelParams, face_width, tooth, werr, stdout>>
         ELSE WheelRaise(throat_torus, "GeometryFailure: throat")

NextWheel ==
    \/ WheelConstruct
    \/ CreateBlank
    \/ CutToothSpace
    \/ ToothSpaceFails
    \/ ApplyThroatCut

(***************************************************************************)
(* worm.py: WormGeometry.  A worm solid is the set of its components: the  *)
(* core and the threads, each thread with its phase and whether it was     *)
(* trimmed to the worm's length.                                           *)
(***************************************************************************)

MaxStarts == 3

Component(kind, phase, trimmed) ==
    [kind |-> kind, phase |-> phase, trimmed |-> trimmed]

\* _create_tooth_profile, lines 140-148: the thread thickness, the backlash,
\* addendum and dedendum, and the tangent of the pressure angle in thousandths
thread_of(thickness, backlash, addendum, dedendum, tan_pa) ==
    [thread_thickness_mm |-> thickness, backlash_mm |-> backlash,
     addendum_mm |-> addendum, dedendum_mm |-> dedendum,
     tan_pressure_angle |-> tan_pa]

\* Threads of module 2 at 20 degrees: of the usual thickness, thin, and with
\* a backlash above the thickness.
ThreadParams ==
    {thread_of(t, b, mm(2), mm(2) + 500, 364) :
        t \in {mm(3), mm(1)}, b \in {0, mm(4)}}

\* line 152
tip_half_width(p) ==
    (p.thread_thickness_mm - p.backlash_mm) \div 2
        - (p.addendum_mm * p.tan_pressure_angle) \div 1000

\* line 155
root_half_width(p) ==
    (p.thread_thickness_mm - p.backlash_mm) \div 2
        + (p.dedendum_mm * p.tan_pressure_angle) \div 1000

InitWormParams ==
    /\ num_starts \in 0..MaxStarts
    /\ hand \in {"RIGHT", "LEFT"}
    /\ lead \in {mm(6), mm(12)}
    /\ length \in {mm(40), mm(12)}
    /\ thread_params \in ThreadParams

\* build has not started.
WormNew ==
    /\ mpc = "core"
    /\ start_index = 0
    /\ thread = None
    /\ threads = <<>>
    /\ core = {}
    /\ union = {}
    /\ next_thread = 0
    /\ mret = None
    /\ merr = ""

IdleWorm ==
    /\ thread_params = thread_of(0, 0, 0, 0, 0)
    /\ num_starts = 0
    /\ hand = "RIGHT"
    /\ lead = 0
    /\ length = 0
    /\ mpc = "idle"
    /\ start_index = 0
    /\ thread = None
    /\ threads = <<>>
    /\ core = {}
    /\ union = {}
    /\ next_thread = 0
    /\ mret = None
    /\ merr = ""

WormParams == <<num_starts, hand, lead, length, thread_params>>

WormRaise(op, e) ==
    /\ mpc' = "raised"
    /\ merr' = e
    /\ backend' = Append(backend, Failed(op))
    /\ UNCHANGED <<WormParams, start_index, thread, threads, core, union,
                   next_thread, mret, stdout>>

\* lines 45-49
core_cylinder == Cut("core", "cylinder", <<length>>, Frac(0, 1))

CreateCore ==
    /\ UNCHANGED notWorm
    /\ mpc = "core"
    /\ \E ok \in BOOLEAN :
         IF ok
         THEN /\ core' = {Component("core", Frac(0, 1), FALSE)}
              /\ backend' = Append(backend, core_cylinder)
              /\ mpc' = "threads"
              /\ start_index' = 0
              /\ threads' = <<>>
              /\ UNCHANGED <<WormParams, thread, union, next_thread, mret,
                             merr, stdout>>
         ELSE WormRaise(core_cylinder, "GeometryFailure: core")

\* line 66 with half a turn in place of the whole turn
angle_offset_half_turn(n, i) == Frac(180 * i, n)

\* line 66: (360 / num_starts) * start_index
angle_offset(n, i) == Frac(360 * i, n)

\* line 95: math.ceil(length / lead) + 1
num_turns == (length + lead - 1) \div lead + 1

\* line 98
helix_height == num_turns * lead

\* lines 99-104: the helix starts at the origin and runs helix_height along
\* its direction, +Z for RIGHT and -Z otherwise: <<lowest z, highest z>>
helix_extent ==
    IF hand = "RIGHT" THEN <<0, helix_height>> ELSE <<0 - helix_height, 0>>

\* lines 122-127 (and the core, lines 45-49): aligned MIN along Z, the box
\* spans z from 0 to length
trim_extent == <<0, length>>

\* lines 91-117: the helix of num_turns turns, rotated by start_angle (a
\* rotation by 0 is left out by line 107), and the profile of
\* _create_tooth_profile (lines 152-164) swept along it
swept(i) ==
    Cut("sweep", "helix",
        <<i, num_turns, IF hand = "RIGHT" THEN 1 ELSE -1,
          tip_half_width(thread_params), root_half_width(thread_params)>>,
        angle_offset(num_starts, i))

\* lines 64-68 and 91-119: the sweep of thread start_index
SweepThread ==
    /\ UNCHANGED notWorm
    /\ mpc = "threads"
    /\ start_index < num_starts
    /\ thread' = Some({Component("thread",
                                 angle_offset(num_starts, start_index), FALSE)})
    /\ backend' = Append(backend, swept(start_index))
    /\ mpc' = "trim"
    /\ UNCHANGED <<WormParams, start_index, threads, core, union, next_thread,
                   mret, merr, stdout>>

\* the failed sweep is skipped and the loop goes on
SweepThreadFailsSkipped ==
    /\ UNCHANGED notWorm
    /\ mpc = "threads"
    /\ start_index < num_starts
    /\ backend' = Append(backend, Failed(swept(start_index)))
    /\ start_index' = start_index + 1
    /\ UNCHANGED <<WormParams, mpc, thread, threads, core, union, next_thread,
                   mret, merr, stdout>>

\* lines 111-117: the sweep raises; nothing catches it up to build's caller
SweepThreadFails ==
    /\ UNCHANGED notWorm
    /\ mpc = "threads"
    /\ start_index < num_starts
    /\ WormRaise(swept(start_index), "GeometryFailure: sweep")

\* the intersection with the box left out
TrimNothing(solid) == solid

\* lines 122-127: thread & Box(tip_diameter, tip_diameter, length)
Trim(solid) == {[c EXCEPT !.trimmed = TRUE] : c \in solid}

trim_box(i) == Cut("trim", "box", <<i, length>>, Frac(0, 1))

\* lines 121-129 and 68-69: the trim of the swept thread, appended to threads
TrimThread ==
    /\ UNCHANGED notWorm
    /\ mpc = "trim"
    /\ \E ok \in BOOLEAN :
         IF ok
         THEN /\ threads' = Append(threads, Trim(Val(thread)))
              /\ backend' = Append(backend, trim_box(start_index))
              /\ thread' = None
              /\ start_index' = start_index + 1
              /\ mpc' = "threads"
              /\ UNCHANGED <<WormParams, core, union, next_thread, mret, merr,
                             stdout>>
         ELSE WormRaise(trim_box(start_index), "GeometryFailure: trim")

\* lines 71-75: the loop is over; result = threads[0]
FirstThread ==
    /\ UNCHANGED notWorm
    /\ mpc = "threads"
    /\ start_index >= num_starts
    /\ IF threads = <<>>
       THEN /\ mpc' = "raised"
            /\ merr' = "IndexError: list index out of range"
            /\ UNCHANGED <<WormParams, start_index, thread, threads, core,
                           union, next_thread, mret, backend, stdout>>
       ELSE /\ union' = threads[1]
            /\ next_thread' = 2
            /\ mpc' = "union"
            /\ UNCHANGED <<WormParams, start_index, thread, threads, core,
                           mret, merr, backend, stdout>>

union_thread(k) == Cut("union_thread", "union", <<k - 1>>, Frac(0, 1))

\* lines 76-77: result = result + thread
UniteThread ==
    /\ UNCHANGED notWorm
    /\ mpc = "union"
    /\ next_thread <= Len(threads)
    /\ \E ok \in BOOLEAN :
         IF ok
         THEN /\ union' = union \cup threads[next_thread]
              /\ backend' = Append(backend, union_thread(next_thread))
              /\ next_thread' = next_thread + 1
              /\ UNCHANGED <<WormParams, mpc, start_index, thread, threads,
                             core, mret, merr, stdout>>
         ELSE WormRaise(union_thread(next_thread), "BooleanFailure: union")

union_core == Cut("union_core", "union", <<>>, Frac(0, 1))

\* lines 78, 52-57: worm = core + threads; return worm
UniteCore ==
    /\ UNCHANGED notWorm
    /\ mpc = "union"
    /\ next_thread > Len(threads)
    /\ \E ok \in BOOLEAN :
         IF ok
         THEN /\ mret' = Some(core \cup union)
              /\ backend' = Append(backend, union_core)
              /\ mpc' = "returned"
              /\ UNCHANGED <<WormParams, start_index, thread, threads, core,
                             union, next_thread, merr, stdout>>
         ELSE WormRaise(union_core, "BooleanFailure: union")

NextWorm ==
    \/ CreateCore
    \/ SweepThread
    \/ SweepThreadFails
    \/ TrimThread
    \/ FirstThread
    \/ UniteThread
    \/ UniteCore

(***************************************************************************)
(* io.py: load_design_json, and cli.py: main, which loads the design and   *)
(* then builds and exports the worm and the wheel with the builders above. *)
(***************************************************************************)

Sections == {"worm", "wheel", "assembly"}

\* The design files tried: the fields of a section are all present, with any
\* values; sections may be missing, and so may the file.
JsonFiles ==
    [exists : BOOLEAN,
     sections : {Sections, {"worm", "wheel"}},
     module_mm : {0 - mm(1), 0, mm(2)},
     num_starts : 1..MaxStarts,
     worm_hand : {"RIGHT", "LEFT"},
     num_teeth : 1..MaxTeeth,
     ratio : {1, 2},
     assembly_hand : {"RIGHT", "LEFT"}]

Arguments ==
    [worm_length : {mm(40)}, wheel_width : {None, Some(mm(12))},
     worm_only : BOOLEAN, wheel_only : BOOLEAN]

\* load_design_json, lines 79-141: [raised, design]
load_design_json(f) ==
    IF ~f.exists
    THEN [raised |-> "FileNotFoundError", design |-> None]
    ELSE IF ~(Sections \subseteq f.sections)
    THEN [raised |-> "ValueError: Invalid design JSON", design |-> None]
    ELSE [raised |-> "",
          design |-> Some([worm |-> [module_mm |-> f.module_mm,
                                     num_starts |-> f.num_starts,
                                     pitch_diameter_mm |-> mm(20),
                                     lead_mm |-> mm(6),
                                     thread_thickness_mm |-> mm(3),
                                     addendum_mm |-> mm(2),
                                     dedendum_mm |-> mm(2) + 500,
                                     hand |-> f.worm_hand],
                           wheel |-> [module_mm |-> f.module_mm,
                                      num_teeth |-> f.num_teeth,
                                      pitch_diameter_mm |-> mm(60),
                                      root_diameter_mm |-> mm(55)],
                           assembly |-> [hand |-> f.assembly_hand,
                                         ratio |-> f.ratio,
                                         backlash_mm |-> 0,
                                         tan_pressure_angle |-> 364]])]

InitCliParams ==
    /\ json_file \in JsonFiles
    /\ args \in Arguments
    /\ design = None
    /\ cpc = "load"
    /\ exit_code = None

IdleCli ==
    /\ json_file = [exists |-> FALSE]
    /\ args = [worm_only |-> FALSE]
    /\ design = None
    /\ cpc = "idle"
    /\ exit_code = None

\* main lines 77-82
LoadDesign ==
    /\ cpc = "load"
    /\ LET loaded == load_design_json(json_file) IN
       IF loaded.raised # ""
       THEN /\ stdout' = Append(stdout, [warning |-> "Error loading design",
                                        i |-> 0])
            /\ exit_code' = Some(1)
            /\ cpc' = "exit"
            /\ UNCHANGED design
       ELSE /\ design' = loaded.design
            /\ cpc' = "worm"
            /\ UNCHANGED <<stdout, exit_code>>
    /\ UNCHANGED <<json_file, args, backend, featVars, wheelVars, wormVars,
                   callVars>>

\* main lines 89-99 and worm.py lines 33-35: WormGeometry(design.worm, design.assembly, length)
GenerateWorm ==
    /\ cpc = "worm"
    /\ IF ~args.wheel_only
       THEN /\ num_starts' = Val(design).worm.num_starts
            /\ hand' = Val(design).worm.hand
            /\ lead' = Val(design).worm.lead_mm
            /\ thread_params' =
                  thread_of(Val(design).worm.thread_thickness_mm,
                            Val(design).assembly.backlash_mm,
                            Val(design).worm.addendum_mm,
                            Val(design).worm.dedendum_mm,
                            Val(design).assembly.tan_pressure_angle)
            /\ length' = args.worm_length
            /\ mpc' = "core"
            /\ cpc' = "worm_build"
       ELSE /\ cpc' = "wheel"
            /\ UNCHANGED <<num_starts, hand, lead, length, thread_params, mpc>>
    /\ UNCHANGED <<start_index, thread, threads, core, union, next_thread,
                   mret, merr>>
    /\ UNCHANGED <<json_file, args, design, exit_code, backend, stdout,
                   featVars, wheelVars, callVars>>

\* main line 102 (export_step, worm.py lines 195-212): the built worm is
\* exported, or the exception of build leaves main
ExportWorm ==
    /\ cpc = "worm_build"
    /\ mpc \in {"returned", "raised"}
    /\ cpc' = IF mpc = "returned" THEN "wheel" ELSE "crashed"
    /\ UNCHANGED <<json_file, args, design, exit_code, backend, stdout,
                   featVars, wheelVars, wormVars, callVars>>

\* main lines 105-112: WheelGeometry(design.wheel, design.worm,
\* design.assembly, face_width)
GenerateWheel ==
    /\ cpc = "wheel"
    /\ IF ~args.worm_only
       THEN /\ num_teeth' = Val(design).wheel.num_teeth
            /\ d1' = Val(design).worm.pitch_diameter_mm
            /\ ratio' = Val(design).assembly.ratio
            /\ face_width_arg' = args.wheel_width
            /\ tooth_space_params' =
                  tooth_space_of(Val(design).wheel.module_mm,
                                 Val(design).wheel.pitch_diameter_mm,
                                 Val(design).wheel.root_diameter_mm,
                                 Val(design).assembly.backlash_mm,
                                 Val(design).assembly.tan_pressure_angle)
            /\ wpc' = "new"
            /\ cpc' = "wheel_build"
       ELSE /\ cpc' = "finish"
            /\ UNCHANGED <<num_teeth, d1, ratio, face_width_arg,
                           tooth_space_params, wpc>>
    /\ UNCHANGED <<face_width, tooth, gear, wret, wsolids, werr>>
    /\ UNCHANGED <<json_file, args, design, exit_code, backend, stdout,
                   featVars, wormVars, callVars>>

\* main line 115 (export_step, wheel.py lines 229-239)
ExportWheel ==
    /\ cpc = "wheel_build"
    /\ wpc \in {"returned", "raised"}
    /\ cpc' = IF wpc = "returned" THEN "finish" ELSE "crashed"
    /\ UNCHANGED <<json_file, args, design, exit_code, backend, stdout,
                   featVars, wheelVars, wormVars, callVars>>

\* main lines 117-121
Finish ==
    /\ cpc = "finish"
    /\ exit_code' = Some(0)
    /\ cpc' = "exit"
    /\ UNCHANGED <<json_file, args, design, backend, stdout,
                   featVars, wheelVars, wormVars, callVars>>

NextCli ==
    \/ LoadDesign
    \/ GenerateWorm
    \/ CreateCore
    \/ SweepThread
    \/ SweepThreadFails
    \/ TrimThread
    \/ FirstThread
    \/ UniteThread
    \/ UniteCore
    \/ ExportWorm
    \/ GenerateWheel
    \/ WheelConstruct
    \/ CreateBlank
    \/ CutToothSpace
    \/ ToothSpaceFails
    \/ ApplyThroatCut
    \/ ExportWheel
    \/ Finish

(***************************************************************************)
(* features.py: calculate_default_bore, and single calls of it, of the     *)
(* two table lookups and of KeywayFeature.get_dimensions                   *)
(***************************************************************************)

\* Python's round(), to the nearest multiple of unit, a tie going to the even
\* multiple: round(bore * 2) / 2 is py_round(bore, 500), round(bore) is
\* py_round(bore, 1000).
py_round(v, unit) ==
    LET q == v \div unit
        r == v % unit
    IN  IF 2 * r < unit THEN q * unit
        ELSE IF 2 * r > unit THEN (q + 1) * unit
        ELSE IF q % 2 = 0 THEN q * unit
        ELSE (q + 1) * unit

\* line 79
min_bore == mm(2)

\* lines 84-85: root_diameter - 2 * max(root_diameter * 0.125, 1.0); twice
\* the rim is max(root_diameter / 4, 2 mm), whole for the diameters drawn.
max_bore_of(root_d) == root_d - Max2(root_d \div 4, mm(2))

\* line 88
too_small_inclusive(root_d) == max_bore_of(root_d) <= min_bore
too_small(root_d) == max_bore_of(root_d) < min_bore

\* lines 95-100
round_nice(b) == IF b < mm(12) THEN py_round(b, 500) ELSE py_round(b, 1000)

\* line 103
final_clamp_none(b, root_d) == b
final_clamp(b, root_d) == Max2(min_bore, Min2(b, max_bore_of(root_d)))

\* line 107: actual_rim < 1.5, actual_rim = (root_diameter - bore) / 2
thin_rim_inclusive(b, root_d) == root_d - b <= mm(3)
thin_rim(b, root_d) == root_d - b < mm(3)

\* lines 75-109: <<bore, has_warning>>
calculate_default_bore(pitch_d, root_d) ==
    LET target == pitch_d \div 4
    IN  IF too_small(root_d)
        THEN <<None, FALSE>>
        ELSE LET clamped == Max2(min_bore, Min2(target, max_bore_of(root_d)))
                 b == final_clamp(round_nice(clamped), root_d)
             IN  <<Some(b), thin_rim(b, root_d)>>

\* Arguments tried.  The diameters of calculate_default_bore are whole
\* millimetres (pitch) and half millimetres (root), so that every float of
\* the computation is exact.
PitchDiameters ==
    {mm(k) : k \in {0 - 4, 0, 4, 8, 9, 17, 20, 26, 40, 50, 52, 100}}

RootDiameters ==
    {k * 500 : k \in {0 - 2, 0, 7, 8, 9, 10, 13, 16, 17, 32, 34, 80, 160}}

LookupDiameters ==
    {k * 500 : k \in (0 - 2)..210} \cup {mm(k) - 1 : k \in 1..101}

\* Arguments BoreFeature is constructed with.
BoreArguments ==
    [diameter : {0 - mm(1), 0, mm(10)}, through : BOOLEAN,
     depth : {None, Some(0 - mm(1)), Some(0), Some(mm(5))}]

\* The construction of a BoreFeature: the dataclass fields are the arguments
\* as given, unless __post_init__ raises.
BoreFeature_new(a) ==
    IF BoreFeature_post_init(a)
    THEN [raised |-> "", self |-> Some(a)]
    ELSE [raised |-> "ValueError", self |-> None]

notCalls == <<backend, stdout, featVars, wheelVars, wormVars, cliVars>>

IdleCalls ==
    /\ fn = ""
    /\ pitch_diameter = 0
    /\ root_diameter = 0
    /\ bore_diameter_arg = 0
    /\ self_keyway = None
    /\ bore_args = None
    /\ returned = None

InitCalls ==
    /\ returned = None
    /\ \/ /\ fn = "calculate_default_bore"
          /\ pitch_diameter \in PitchDiameters
          /\ root_diameter \in RootDiameters
          /\ bore_diameter_arg = 0
          /\ self_keyway = None
          /\ bore_args = None
       \/ /\ fn \in {"get_din_6885_keyway", "get_set_screw_size"}
          /\ pitch_diameter = 0
          /\ root_diameter = 0
          /\ bore_diameter_arg \in LookupDiameters
          /\ self_keyway = None
          /\ bore_args = None
       \/ /\ fn = "get_dimensions"
          /\ pitch_diameter = 0
          /\ root_diameter = 0
          /\ bore_diameter_arg \in LookupDiameters
          /\ self_keyway \in {Some(k) : k \in KeywayFeatures}
          /\ bore_args = None
       \/ /\ fn = "BoreFeature"
          /\ pitch_diameter = 0
          /\ root_diameter = 0
          /\ bore_diameter_arg = 0
          /\ self_keyway = None
          /\ bore_args \in {Some(a) : a \in BoreArguments}

Return(v) ==
    /\ returned = None
    /\ returned' = Some(v)
    /\ UNCHANGED <<fn, pitch_diameter, root_diameter, bore_diameter_arg,
                   self_keyway, bore_args>>
    /\ UNCHANGED notCalls

CallCalculateDefaultBore ==
    /\ fn = "calculate_default_bore"
    /\ Return(calculate_default_bore(pitch_diameter, root_diameter))

CallGetDin6885Keyway ==
    /\ fn = "get_din_6885_keyway"
    /\ Return(get_din_6885_keyway(bore_diameter_arg))

CallGetSetScrewSize ==
    /\ fn = "get_set_screw_size"
    /\ Return(get_set_screw_size(bore_diameter_arg))

CallGetDimensions ==
    /\ fn = "get_dimensions"
    /\ Return(get_dimensions(Val(self_keyway), bore_diameter_arg))

\* BoreFeature(diameter, through, depth), lines 165-175
CallBoreFeature ==
    /\ fn = "BoreFeature"
    /\ Return(BoreFeature_new(Val(bore_args)))

NextCalls ==
    \/ CallBoreFeature
    \/ CallCalculateDefaultBore
    \/ CallGetDin6885Keyway
    \/ CallGetSetScrewSize
    \/ CallGetDimensions

(***************************************************************************)
(* Specifications                                                          *)
(***************************************************************************)

InitFeat ==
    /\ InitFeatures
    /\ IdleWheel
    /\ IdleWorm
    /\ IdleCli
    /\ IdleCalls

SpecFeatures == InitFeat /\ [][NextFeatures]_vars

InitWheel ==
    /\ backend = <<>>
    /\ stdout = <<>>
    /\ IdleFeatures
    /\ InitWheelParams
    /\ WheelNew
    /\ IdleWorm
    /\ IdleCli
    /\ IdleCalls

SpecWheel == InitWheel /\ [][NextWheel]_vars

InitWorm ==
    /\ backend = <<>>
    /\ stdout = <<>>
    /\ IdleFeatures
    /\ IdleWheel
    /\ InitWormParams
    /\ WormNew
    /\ IdleCli
    /\ IdleCalls

SpecWorm == InitWorm /\ [][NextWorm]_vars

InitCli ==
    /\ backend = <<>>
    /\ stdout = <<>>
    /\ IdleFeatures
    /\ IdleWheel
    /\ IdleWorm
    /\ InitCliParams
    /\ IdleCalls

SpecCli == InitCli /\ [][NextCli]_vars

InitFunctions ==
    /\ backend = <<>>
    /\ stdout = <<>>
    /\ IdleFeatures
    /\ IdleWheel
    /\ IdleWorm
    /\ IdleCli
    /\ InitCalls

SpecCalls == InitFunctions /\ [][NextCalls]_vars

(***************************************************************************)
(* Claims about add_bore_and_keyway, checked under SpecFeatures            *)
(***************************************************************************)

Rank(op) == CASE op = "bore" -> 1 [] op = "keyway" -> 2 [] OTHER -> 3

OpsBefore(k) == {backend[i].op : i \in 1..(k - 1)}

\* C1: the cuts are made in the order bore, keyway, set screw(s): the log of
\* backend operations never holds a keyway or set-screw cut that is not
\* preceded by the bore cut, nor a set-screw cut that is not preceded by the
\* keyway cut when a keyway was requested, and no cut of an earlier feature
\* follows a cut of a later one; the bore and the keyway are cut at most once.
C1_FeatureOrder ==
    /\ \A i, j \in 1..Len(backend) :
          i < j => /\ Rank(backend[i].op) <= Rank(backend[j].op)
                   /\ backend[i].op = backend[j].op => backend[i].op = "set_screw"
    /\ \A k \in 1..Len(backend) :
          /\ backend[k].op \in {"bore", "keyway", "set_screw"}
          /\ backend[k].op # "bore" => "bore" \in OpsBefore(k)
          /\ (backend[k].op = "set_screw" /\ keyway # None)
                => "keyway" \in OpsBefore(k)

\* C1 witness: all three features were requested and cut, two screws or more.
C1_Witness ==
    /\ fpc = "returned"
    /\ bore # None /\ keyway # None /\ set_screw # None
    /\ Len(backend) >= 4
    /\ backend[1].op = "bore" /\ backend[2].op = "keyway"
    /\ backend[3].op = "set_screw"

\* C2: a keyway and/or a set screw without a bore is rejected by the
\* ValueError of the validation, in each of the three combinations, and no
\* backend operation is performed and nothing is cut or returned.
C2_NoBoreRejected ==
    (bore = None /\ (keyway # None \/ set_screw # None)) =>
        /\ backend = <<>> /\ result = <<>> /\ fret = None
        /\ fpc \in {"l507", "raised"}
        /\ fpc = "raised" =>
              ferr = IF keyway # None
                     THEN "ValueError: Keyway requires a bore to be specified"
                     ELSE "ValueError: Set screw requires a bore to be specified"

\* C2 witness: a set screw alone, without bore and keyway, has been rejected.
C2_Witness ==
    /\ bore = None /\ keyway = None /\ set_screw # None
    /\ fpc = "raised"

ConfigurationErrors ==
    {"ValueError: Keyway requires a bore to be specified",
     "ValueError: Set screw requires a bore to be specified",
     "ValueError: bore outside DIN 6885 range",
     "ValueError: bore too small for set screws"}

\* C3 (as claimed): whenever add_bore_and_keyway has raised a configuration
\* error, no backend operation has been performed before it.
C3_ConfigErrorBeforeBackend ==
    (fpc = "raised" /\ ferr \in ConfigurationErrors) => backend = <<>>

(***************************************************************************)
(* Claims about WheelGeometry, checked under SpecWheel                     *)
(***************************************************************************)

IsWheelOp(e) == e.op \in {"blank", "tooth_space", "throat"}
IsToothOp(e) == e.op = "tooth_space"
IsOk(e) == e.ok

WheelLog == SelectSeq(backend, IsWheelOp)
ToothLog == SelectSeq(backend, IsToothOp)

\* C4: the tooth-space attempts in the backend log are the indices 0, 1, 2, ...
\* each once and in order, as many as the loop has passed; a failed attempt
\* leaves the gear body as it was (the body holds exactly the spaces whose cut
\* succeeded); once the loop is left all num_teeth indices were attempted; and
\* the build is never aborted by a tooth space: it raises only for the blank or
\* the throat.
C4_EveryToothAttempted ==
    /\ Len(ToothLog) = tooth
    /\ \A k \in 1..Len(ToothLog) : ToothLog[k].dims[1] = k - 1
    /\ SelectSeq(gear, IsToothOp) = SelectSeq(ToothLog, IsOk)
    /\ (wpc \in {"returned", "raised"} /\ werr # "GeometryFailure: blank")
          => Len(ToothLog) = num_teeth
    /\ wpc = "raised"
          => werr \in {"GeometryFailure: blank", "GeometryFailure: throat"}

\* C4 witness: a wheel of three teeth was returned whose second tooth space
\* failed and whose first and third were cut.
C4_Witness ==
    /\ wpc = "returned"
    /\ num_teeth = 3
    /\ Len(ToothLog) = 3
    /\ ToothLog[1].ok /\ ~ToothLog[2].ok /\ ToothLog[3].ok
    /\ Len(SelectSeq(gear, IsToothOp)) = 2

FailedTeeth ==
    LET bad == SelectSeq(ToothLog, LAMBDA e : ~e.ok)
    IN  [k \in 1..Len(bad) |-> bad[k].dims[1]]

\* C5 (as claimed): what build returns is the solid together with the list of
\* the tooth spaces whose cut failed.
C5_FailuresReturned ==
    (wpc = "returned" /\ FailedTeeth # <<>>) =>
        /\ Len(Val(wret)) = 2
        /\ Val(wret)[2] = FailedTeeth

\* C6: the face width is resolved before any backend operation; the wheel's
\* operations are the blank, then the tooth-space attempts, then the throat
\* cut, which comes exactly once, last, after all num_teeth attempts; a
\* returned wheel ends with the throat cut; and a failed blank or throat cut
\* ends the build with an error and nothing returned.
C6_WheelOrder ==
    /\ WheelLog # <<>> => face_width # None
    /\ \A k \in 1..Len(WheelLog) :
          /\ (WheelLog[k].op = "blank") = (k = 1)
          /\ WheelLog[k].op = "throat"
                => k = Len(WheelLog) /\ k = num_teeth + 2
          /\ (WheelLog[k].op # "tooth_space" /\ ~WheelLog[k].ok)
                => wpc = "raised" /\ wret = None /\ k = Len(WheelLog)
    /\ wpc = "returned" =>
          /\ Len(WheelLog) = num_teeth + 2
          /\ WheelLog[Len(WheelLog)] = throat_torus
          /\ wret = Some(<<gear>>)
          /\ gear[1] = blank /\ gear[Len(gear)] = throat_torus
    /\ wpc = "raised" => wret = None

\* C6 witness: after the blank and two or more tooth-space attempts the throat
\* cut failed and the build raised.
C6_Witness ==
    /\ wpc = "raised"
    /\ werr = "GeometryFailure: throat"
    /\ num_teeth >= 2
    /\ Len(WheelLog) = num_teeth + 2

(***************************************************************************)
(* Claims about WormGeometry, checked under SpecWorm                       *)
(***************************************************************************)

IsWormOp(e) ==
    e.op \in {"core", "sweep", "trim", "union_thread", "union_core"}
IsSweep(e) == e.op = "sweep"

WormLog == SelectSeq(backend, IsWormOp)
SweepLog == SelectSeq(backend, IsSweep)

ThreadsOf(solid) == {c \in solid : c.kind = "thread"}

AllPhases == {angle_offset(num_starts, i) : i \in 0..(num_starts - 1)}

\* C7 (as claimed): the trim comes after the merge: every trim in the log of
\* backend operations is preceded by the union of the core with the threads.
C7_TrimAfterMerge ==
    \A k \in 1..Len(WormLog) :
        WormLog[k].op = "trim" =>
            \E j \in 1..(k - 1) : WormLog[j].op = "union_core"

\* C7 (amended): the core is created first; every trim directly follows the
\* successful sweep of the same thread and precedes every union, so each thread
\* is trimmed on its own before anything is merged; the union with the core is
\* the last operation, and the returned worm holds the untrimmed core and only
\* trimmed threads.
C7_TrimBeforeMerge ==
    /\ \A k \in 1..Len(WormLog) :
          /\ (WormLog[k].op = "core") = (k = 1)
          /\ WormLog[k].op = "trim" =>
                /\ k > 1
                /\ WormLog[k - 1].op = "sweep" /\ WormLog[k - 1].ok
                /\ WormLog[k - 1].dims[1] = WormLog[k].dims[1]
                /\ \A j \in 1..k :
                      WormLog[j].op \notin {"union_thread", "union_core"}
          /\ WormLog[k].op = "union_core" => k = Len(WormLog)
    /\ mpc = "returned" =>
          /\ WormLog[Len(WormLog)] = union_core
          /\ \A c \in Val(mret) : c.trimmed = (c.kind = "thread")

\* C7 witness: a worm of two or more starts was returned, each thread trimmed
\* before the first union.
C7_Witness ==
    /\ mpc = "returned"
    /\ num_starts >= 2
    /\ Cardinality(ThreadsOf(Val(mret))) = num_starts
    /\ WormLog[3].op = "trim"

\* C8: a returned worm holds the core and all num_starts threads, and once the
\* sweep or the trim of any thread has failed the build has raised and returns
\* nothing.
C8_NoPartialWorm ==
    /\ mpc = "returned" =>
          /\ {c.phase : c \in ThreadsOf(Val(mret))} = AllPhases
          /\ Cardinality(ThreadsOf(Val(mret))) = num_starts
          /\ \E c \in Val(mret) : c.kind = "core"
    /\ \A k \in 1..Len(WormLog) :
          (WormLog[k].op \in {"sweep", "trim"} /\ ~WormLog[k].ok)
              => mpc = "raised" /\ mret = None /\ k = Len(WormLog)

\* C8 witness: the sweep of the second thread failed after the first thread
\* was swept and trimmed, and the build raised.
C8_Witness ==
    /\ mpc = "raised"
    /\ merr = "GeometryFailure: sweep"
    /\ Len(threads) = 1
    /\ WormLog[Len(WormLog)] = Failed(swept(1))

\* Adding 360/num_starts degrees to a phase, modulo 360.
NextPhase(p) == Frac((p[1] + 360) % (360 * p[2]), p[2])

\* C9: the k-th sweep (k = 0, 1, ...) is phase-offset by 360/num_starts * k
\* degrees; consecutive sweeps are 360/num_starts degrees apart; once the loop
\* is over exactly num_starts threads were swept; and the phases of the
\* threads of a returned worm are the same set after adding 360/num_starts
\* modulo 360.
C9_ThreadPhases ==
    /\ \A k \in 1..Len(SweepLog) :
          /\ SweepLog[k].angle[2] = num_starts
          /\ SweepLog[k].angle[1] = 360 * (k - 1)
          /\ k > 1 => SweepLog[k].angle[1] - SweepLog[k - 1].angle[1] = 360
    /\ mpc \in {"union", "returned"} => Len(SweepLog) = num_starts
    /\ mpc = "returned" =>
          LET phases == {c.phase : c \in ThreadsOf(Val(mret))}
          IN  /\ Cardinality(phases) = num_starts
              /\ {NextPhase(p) : p \in phases} = phases

\* C9 witness: a worm of three starts was returned.
C9_Witness ==
    /\ mpc = "returned"
    /\ num_starts = 3
    /\ Len(SweepLog) = 3
    /\ SweepLog[3].angle = Frac(720, 3)

(***************************************************************************)
(* Claims about loading and validation, checked under SpecCli              *)
(***************************************************************************)

\* The design of the file is well-formed and consistent.
DesignValid ==
    /\ json_file.module_mm > 0
    /\ json_file.num_teeth = json_file.ratio * json_file.num_starts
    /\ json_file.worm_hand = json_file.assembly_hand

\* C10 (as claimed): a design with module <= 0, num_teeth # ratio * num_starts
\* or worm.hand # assembly.hand is rejected when it is loaded: it is never
\* handed to the builders, and no geometry operation is attempted for it.
C10_ValidatedBeforeGeometry ==
    (cpc # "idle" /\ backend # <<>>) => DesignValid

(***************************************************************************)
(* Claims about calculate_default_bore, the table lookups and              *)
(* get_dimensions, checked under SpecCalls                                 *)
(***************************************************************************)

Done(f) == fn = f /\ returned # None

Clamp(v, lo, hi) == Max2(lo, Min2(v, hi))

Dist(a, b) == IF a >= b THEN a - b ELSE b - a

\* max_bore = root_d - 2 * max(0.125 * root_d, 1.0): three quarters of a root
\* diameter of 8 mm or more, the root diameter less 2 mm below that.
MaxBore(root_d) ==
    IF root_d >= mm(8) THEN (3 * root_d) \div 4 ELSE root_d - mm(2)

\* C11: calculate_default_bore returns (None, False) exactly when max_bore is
\* below min_bore = 2.0, that is for a root diameter below 4 mm, whatever the
\* pitch diameter is; a root diameter of 3.5 mm gives (None, False).
C11_NoBoreIffMaxBoreBelowMin ==
    Done("calculate_default_bore") =>
        /\ (Val(returned) = <<None, FALSE>>) <=> (MaxBore(root_diameter) < mm(2))
        /\ (Val(returned)[1] = None) <=> (root_diameter < mm(4))
        /\ root_diameter = mm(3) + 500 => Val(returned) = <<None, FALSE>>

\* C11 witness: a root diameter of 3.5 mm under a pitch diameter of 100 mm
\* was answered by (None, False).
C11_Witness ==
    /\ Done("calculate_default_bore")
    /\ root_diameter = mm(3) + 500
    /\ pitch_diameter = mm(100)
    /\ Val(returned) = <<None, FALSE>>

C13_WarningIffThinRim ==
    Done("calculate_default_bore") =>
        LET ret == Val(returned)
        IN  ret[2] <=> /\ ret[1] # None
                       /\ root_diameter - Val(ret[1]) < mm(3)

\* C13 witness: a rim of exactly 1.5 mm (root 5, bore 2) without a warning.
C13_Witness ==
    /\ Done("calculate_default_bore")
    /\ root_diameter = mm(5)
    /\ Val(returned) = <<Some(mm(2)), FALSE>>

\* The rows of a table whose range [min, max) holds d.
RowsHolding(table, d) ==
    {i \in 1..Len(table) : table[i].min <= d /\ d < table[i].max}

\* C14: get_din_6885_keyway returns the dimensions of the one row whose range
\* [min, max) holds the bore, for every bore in [6, 95), and None for every
\* bore below 6 or at or above 95; a bore on a boundary belongs to the range
\* starting there: 10.0 gives (4, 4, 2.5, 1.8).
C14_KeywayLookup ==
    Done("get_din_6885_keyway") =>
        LET d == bore_diameter_arg
            ret == Val(returned)
        IN  /\ (d < mm(6) \/ d >= mm(95)) => ret = None
            /\ (mm(6) <= d /\ d < mm(95)) =>
                  /\ Cardinality(RowsHolding(DIN_6885_KEYWAYS, d)) = 1
                  /\ \A i \in RowsHolding(DIN_6885_KEYWAYS, d) :
                        ret = Some(DIN_6885_KEYWAYS[i].value)
            /\ d = mm(10) =>
                  ret = Some([key_width |-> 4000, key_height |-> 4000,
                              shaft_depth |-> 2500, hub_depth |-> 1800])

\* C14 witness: the boundary bore 10.0 was looked up and answered.
C14_Witness ==
    /\ Done("get_din_6885_keyway")
    /\ bore_diameter_arg = mm(10)
    /\ Val(returned) # None
    /\ Val(Val(returned)).key_width = mm(4)

\* C15: get_dimensions resolves width and depth each on its own: the width
\* is the explicit width or else the table's key width, the depth is the
\* explicit depth or else the table's shaft depth for a shaft keyway and hub
\* depth for a hub keyway, never the key height.
C15_DimensionsResolved ==
    (Done("get_dimensions") /\ Val(returned).raised = "") =>
        LET k == Val(self_keyway)
            ret == Val(returned)
            row == DIN_6885_KEYWAYS[CHOOSE i \in 1..Len(DIN_6885_KEYWAYS) :
                       i \in RowsHolding(DIN_6885_KEYWAYS, bore_diameter_arg)].value
        IN  /\ k.width # None => ret.width = Val(k.width)
            /\ k.width = None => ret.width = row.key_width
            /\ k.depth # None => ret.depth = Val(k.depth)
            /\ (k.depth = None /\ k.is_shaft) => ret.depth = row.shaft_depth
            /\ (k.depth = None /\ ~k.is_shaft) => ret.depth = row.hub_depth

\* C15 witness: an explicit width with a depth taken from the table, for a
\* shaft keyway on a bore of 40 mm, where shaft depth, hub depth and key
\* height all differ.
C15_Witness ==
    /\ Done("get_dimensions")
    /\ bore_diameter_arg = mm(40)
    /\ Val(self_keyway).width # None /\ Val(self_keyway).depth = None
    /\ Val(self_keyway).is_shaft
    /\ Val(returned) = [raised |-> "", width |-> Val(Val(self_keyway).width),
                        depth |-> mm(5)]

\* C16: get_dimensions fails exactly when the bore is outside [6, 95) and
\* width or depth is not given; with both given it returns them unchanged for
\* every bore, and with a bore in [6, 95) it never fails.
C16_DimensionsFailIff ==
    Done("get_dimensions") =>
        LET k == Val(self_keyway)
            d == bore_diameter_arg
            ret == Val(returned)
        IN  /\ (ret.raised # "") <=>
                  /\ (d < mm(6) \/ d >= mm(95))
                  /\ (k.width = None \/ k.depth = None)
            /\ (k.width # None /\ k.depth # None) =>
                  ret = [raised |-> "", width |-> Val(k.width),
                         depth |-> Val(k.depth)]

\* C16 witness: a bore of 100 mm with width and depth given was answered by
\* the given width and depth.
C16_Witness ==
    /\ Done("get_dimensions")
    /\ bore_diameter_arg = mm(100)
    /\ Val(self_keyway).width # None /\ Val(self_keyway).depth # None
    /\ Val(returned).raised = ""
    /\ Val(returned).width = Val(Val(self_keyway).width)

\* C17: get_set_screw_size fails for every bore below 2 mm, returns the row
\* whose range [min, max) holds the bore for every bore in [2, 100), and
\* returns ("M8", 8.0) for every bore of 100 mm or more.
C17_SetScrewLookup ==
    Done("get_set_screw_size") =>
        LET d == bore_diameter_arg
            ret == Val(returned)
        IN  /\ d < mm(2) => ret.raised # ""
            /\ (mm(2) <= d /\ d < mm(100)) =>
                  /\ Cardinality(RowsHolding(SET_SCREW_SIZES, d)) = 1
                  /\ \A i \in RowsHolding(SET_SCREW_SIZES, d) :
                        ret = [raised |-> "",
                               size |-> SET_SCREW_SIZES[i].value.size,
                               diameter |-> SET_SCREW_SIZES[i].value.diameter]
            /\ d >= mm(100) =>
                  ret = [raised |-> "", size |-> "M8", diameter |-> 8000]

\* C17 witness: a bore of exactly 100 mm was answered by M8.
C17_Witness ==
    /\ Done("get_set_screw_size")
    /\ bore_diameter_arg = mm(100)
    /\ Val(returned).size = "M8"

(***************************************************************************)
(* Claims about the cutting solids of create_bore, create_keyway and       *)
(* create_set_screw, checked under SpecFeatures                            *)
(***************************************************************************)

IsScrewHole(e) == e.op = "set_screw" /\ e.ok
IsBoreCut(e) == e.op = "bore"
IsKeywayCut(e) == e.op = "keyway"

ScrewHoles == SelectSeq(backend, IsScrewHole)

\* C18: create_set_screw cuts exactly count holes, hole k (k = 0..count-1) at
\* angular_offset + k * 360 / count, for every count in 1..3: the holes cut
\* so far are the first of these, in order, and all count of them are cut
\* when the part is returned; count 2 at offset 90 gives 90 and 270.
C18_SetScrewAngles ==
    /\ set_screw = None => ScrewHoles = <<>>
    /\ set_screw # None =>
          LET s == Val(set_screw) IN
          /\ Len(ScrewHoles) <= s.count
          /\ \A k \in 1..Len(ScrewHoles) :
                s.count * ScrewHoles[k].angle
                    = s.count * s.angular_offset + (k - 1) * 360
          /\ fpc = "returned" => Len(ScrewHoles) = s.count
          /\ (fpc = "returned" /\ s.count = 2 /\ s.angular_offset = 90) =>
                <<ScrewHoles[1].angle, ScrewHoles[2].angle>> = <<90, 270>>

\* C18 witness: three holes were cut from an offset of 90 degrees, the last
\* at 330, and the part returned.
C18_Witness ==
    /\ fpc = "returned"
    /\ set_screw # None
    /\ Val(set_screw).count = 3 /\ Val(set_screw).angular_offset = 90
    /\ Len(ScrewHoles) = 3
    /\ ScrewHoles[3].angle = 330

\* C19 (as claimed): the cutting cylinder of a through bore overhangs each
\* end face of a centred part by 1 mm, so it is 2 mm longer than the part;
\* that of a non-through bore is bore.depth long.
C19_ThroughBoreOneMmEachSide ==
    \A k \in 1..Len(backend) :
        IsBoreCut(backend[k]) =>
            backend[k].dims[2] =
                IF Val(bore).through THEN part_length + 2 * mm(1)
                ELSE Val(Val(bore).depth)

\* C19 (amended): the cutting cylinder of a through bore is part_length + 1 mm
\* long and centred on the origin, so it overhangs each end face of a centred
\* part by 0.5 mm; that of a non-through bore is exactly bore.depth long.  Its
\* radius is half the bore diameter.
C19_ThroughBoreHalfMmEachSide ==
    \A k \in 1..Len(backend) :
        IsBoreCut(backend[k]) =>
            /\ backend[k].dims[1] * 2 = Val(bore).diameter
            /\ Val(bore).through =>
                  /\ backend[k].dims[2] = part_length + mm(1)
                  /\ backend[k].dims[2] - part_length = 2 * 500
            /\ ~Val(bore).through =>
                  backend[k].dims[2] = Val(Val(bore).depth)

\* C19 witness: a through bore was cut with a cylinder of 13 mm through a part
\* of 12 mm.
C19_Witness ==
    /\ backend # <<>>
    /\ IsBoreCut(backend[1]) /\ backend[1].ok
    /\ Val(bore).through
    /\ part_length = mm(12)
    /\ backend[1].dims[2] = mm(13)

\* C20 (as claimed): the cutting prism of a keyway spans from the axis to
\* bore_radius + depth, is as wide as the resolved key width, and is as long
\* as keyway.length when given and as the part otherwise, for shaft and hub
\* keyways alike.
C20_KeywayPrism ==
    \A k \in 1..Len(backend) :
        IsKeywayCut(backend[k]) =>
            LET kw == Val(keyway)
                dims == get_dimensions(kw, Val(bore).diameter)
            IN  backend[k].dims =
                    << Val(bore).diameter \div 2 + dims.depth,
                       dims.width,
                       IF kw.length # None THEN Val(kw.length) ELSE part_length >>

\* C21 (as claimed): every set-screw hole has radius thread_diameter / 2 and,
\* for a part of any outer radius around the bore, reaches from inside the
\* bore to beyond the outer surface of the part, so it opens on the outside.
C21_HoleOpensOutside ==
    \A k \in 1..Len(backend) :
        IsScrewHole(backend[k]) =>
            /\ 2 * backend[k].dims[1] = screw_diameter
            /\ \A outer \in PartRadii :
                  2 * outer > Val(bore).diameter => backend[k].dims[2] > outer

(***************************************************************************)
(* Claims about the face width and the tooth space of the wheel, checked   *)
(* under SpecWheel                                                         *)
(***************************************************************************)

\* C22: without a face width given, the face width of the wheel is
\* 0.73 * d1^(1/3) * sqrt(ratio) clamped into [0.3 * d1, 0.67 * d1] and so
\* lies in that interval; a face width given is used unchanged, neither
\* computed nor clamped.
C22_FaceWidthResolved ==
    face_width # None =>
        LET b == Val(face_width) IN
        IF face_width_arg = None
        THEN /\ 10 * b >= 3 * d1
             /\ 100 * b <= 67 * d1
             /\ b = Clamp(face_width_formula(d1, ratio),
                          (3 * d1) \div 10, (67 * d1) \div 100)
        ELSE b = Val(face_width_arg)

\* C22 witness: a face width of 12 mm given for a worm of 8 mm pitch
\* diameter, above 0.67 * d1, was taken as it is.
C22_Witness ==
    /\ face_width_arg = Some(mm(12))
    /\ d1 = mm(8)
    /\ face_width = Some(mm(12))

\* C23 (as claimed): for d1 = 20 mm and ratio 30 without a face width given,
\* the formula value exceeds 0.67 * d1 and the face width is 13.4 mm.
C23_FaceWidthUpperClampBinds ==
    (face_width # None /\ face_width_arg = None /\ d1 = mm(20) /\ ratio = 30) =>
        /\ face_width_formula(d1, ratio) > (67 * d1) \div 100
        /\ Val(face_width) = mm(13) + 400

\* C23 (amended): for d1 = 20 mm and ratio 30 without a face width given, the
\* formula value is about 10.85 mm, between 10.8 and 10.9, inside
\* [6.0, 13.4]: no clamp binds and the face width is the formula value.
C23_FaceWidthNoClampBinds ==
    (face_width # None /\ face_width_arg = None /\ d1 = mm(20) /\ ratio = 30) =>
        /\ Val(face_width) = face_width_formula(d1, ratio)
        /\ mm(10) + 800 <= Val(face_width) /\ Val(face_width) <= mm(10) + 900
        /\ mm(6) < Val(face_width) /\ Val(face_width) < mm(13) + 400

\* C23 witness: the face width was derived for d1 = 20 mm and ratio 30.
C23_Witness ==
    /\ face_width # None /\ face_width_arg = None
    /\ d1 = mm(20) /\ ratio = 30
    /\ Val(face_width) < mm(11)

\* C24 (as claimed): the part the wheel build returns is exactly one solid:
\* of several disjoint solids left by the boolean operations, the one of
\* largest volume is returned and the fragments are discarded.
C24_WheelIsOneSolid ==
    wpc = "returned" => Len(wsolids) = 1

\* C28 (as claimed): the root width of every tooth space the wheel is cut
\* with is at least 0.1 * module.
C28_RootWidthFloor ==
    \A k \in 1..Len(backend) :
        IsToothOp(backend[k]) =>
            10 * backend[k].dims[2] >= tooth_space_params.module_mm

(***************************************************************************)
(* Claims about the construction of a BoreFeature and about the bores of   *)
(* calculate_default_bore and the tables, checked under SpecCalls          *)
(***************************************************************************)

\* C25 (as claimed): a BoreFeature that was constructed has a diameter > 0
\* and carries a depth, which is > 0, exactly when it is not a through bore;
\* a diameter <= 0, a depth <= 0, or no depth for a bore that is not through
\* makes the construction raise.
C25_BoreFeatureInvariant ==
    Done("BoreFeature") =>
        LET a == Val(bore_args)
            ret == Val(returned)
        IN  /\ (\/ a.diameter <= 0
                \/ (a.depth # None /\ Val(a.depth) <= 0)
                \/ (~a.through /\ a.depth = None)) => ret.raised # ""
            /\ ret.raised = "" =>
                  LET b == Val(ret.self) IN
                  /\ b.diameter > 0
                  /\ (b.depth # None) <=> ~b.through
                  /\ b.depth # None => Val(b.depth) > 0

\* C29 (as claimed): every bore calculate_default_bore returns is a multiple
\* of 0.5 mm, and of 1 mm when it is 12 mm or more.
C29_BoreIsNiceValue ==
    (Done("calculate_default_bore") /\ Val(returned)[1] # None) =>
        LET b == Val(Val(returned)[1])
        IN  /\ b % 500 = 0
            /\ b >= mm(12) => b % mm(1) = 0

\* The ranges of a table are non-empty, pairwise disjoint, follow one another
\* without a gap and cover [lo, hi) exactly.
Partitions(table, lo, hi) ==
    /\ table[1].min = lo
    /\ table[Len(table)].max = hi
    /\ \A i \in 1..Len(table) : table[i].min < table[i].max
    /\ \A i \in 1..(Len(table) - 1) : table[i].max = table[i + 1].min
    /\ \A i, j \in 1..Len(table) :
          i # j => \/ table[i].max <= table[j].min
                   \/ table[j].max <= table[i].min

\* C30: the ranges of DIN_6885_KEYWAYS partition [6, 95) and those of
\* SET_SCREW_SIZES partition [2, 100); a bore in the covered interval matches
\* exactly one row, and what a lookup returned is the value of every row that
\* matches, so the order in which the rows are scanned does not matter.
C30_TablesPartition ==
    /\ Partitions(DIN_6885_KEYWAYS, mm(6), mm(95))
    /\ Partitions(SET_SCREW_SIZES, mm(2), mm(100))
    /\ Done("get_din_6885_keyway") =>
          /\ (mm(6) <= bore_diameter_arg /\ bore_diameter_arg < mm(95)) =>
                Cardinality(RowsHolding(DIN_6885_KEYWAYS, bore_diameter_arg)) = 1
          /\ \A i \in RowsHolding(DIN_6885_KEYWAYS, bore_diameter_arg) :
                Val(returned) = Some(DIN_6885_KEYWAYS[i].value)
    /\ Done("get_set_screw_size") =>
          /\ (mm(2) <= bore_diameter_arg /\ bore_diameter_arg < mm(100)) =>
                Cardinality(RowsHolding(SET_SCREW_SIZES, bore_diameter_arg)) = 1
          /\ \A i \in RowsHolding(SET_SCREW_SIZES, bore_diameter_arg) :
                /\ Val(returned).size = SET_SCREW_SIZES[i].value.size
                /\ Val(returned).diameter = SET_SCREW_SIZES[i].value.diameter

\* C30 witness: a bore of 10.5 mm, inside the range (10, 12), was looked up
\* in the keyway table and matched that one row.
C30_Witness ==
    /\ Done("get_din_6885_keyway")
    /\ bore_diameter_arg = mm(10) + 500
    /\ RowsHolding(DIN_6885_KEYWAYS, bore_diameter_arg) = {3}
    /\ Val(Val(returned)).key_width = mm(4)

(***************************************************************************)
(* Claims about the thread profile and the helix of the worm, checked      *)
(* under SpecWorm                                                          *)
(***************************************************************************)

IsSweptThread(e) == e.op = "sweep" /\ e.ok

\* C26 (as claimed): no thread is swept from a profile whose tip or root
\* half-width is <= 0: building such a profile fails.
C26_NoDegenerateProfileSwept ==
    \A k \in 1..Len(backend) :
        IsSweptThread(backend[k]) =>
            backend[k].dims[4] > 0 /\ backend[k].dims[5] > 0

\* What the trim leaves of a solid spanning extent along Z.
Overlap(extent, box) ==
    <<Max2(extent[1], box[1]), Min2(extent[2], box[2])>>

\* C27 (as claimed): for either hand the helix has ceil(length / lead) + 1
\* turns, runs along +Z for RIGHT and -Z for LEFT, and covers the span of the
\* core and of the trim box, z from 0 to length, so that the thread left by
\* the trim runs the full length.
C27_HelixCoversTrimmedSpan ==
    \A k \in 1..Len(backend) :
        IsSweptThread(backend[k]) =>
            /\ (backend[k].dims[2] - 1) * lead >= length
            /\ (backend[k].dims[2] - 2) * lead < length
            /\ backend[k].dims[3] = IF hand = "RIGHT" THEN 1 ELSE 0 - 1
            /\ helix_extent[1] <= 0 /\ helix_extent[2] >= length
            /\ Overlap(helix_extent, trim_extent) = <<0, length>>

====
